---- MODULE Spec2Model ----
(***************************************************************************)
(* Model of src/ogomovies.js: the four asynchronous operations             *)
(* searchResults, extractDetails, extractEpisodes and extractStreamUrl,    *)
(* run against a data source reached through fetchv2.                      *)
(*                                                                         *)
(* Strings are TLA+ strings; a character is a string of length one.  The   *)
(* regular expressions of the source are evaluated character by character, *)
(* with the leftmost-match and greedy-quantifier rules of JavaScript.      *)
(***************************************************************************)
EXTENDS Integers, Sequences, FiniteSets, TLC

----------------------------------------------------------------------------
(* Bounds of the model *)

\* longest answer of the search endpoint, in hits
MaxHits == 2

----------------------------------------------------------------------------
(* Characters and strings *)

\* s.substring(a - 1, b): the characters a..b of s, clamped to s
Sub(s, a, b) ==
    LET lo == IF a < 1 THEN 1 ELSE a
        hi == IF b > Len(s) THEN Len(s) ELSE b
    IN  IF lo > hi THEN "" ELSE SubSeq(s, lo, hi)

\* the character of s at position i, "" outside s
Ch(s, i) == Sub(s, i, i)

UpperCase == "ABCDEFGHIJKLMNOPQRSTUVWXYZ"
LowerCase == "abcdefghijklmnopqrstuvwxyz"

\* the case folding of the i flag
Lower(c) ==
    CASE c = "A" -> "a"
      [] c = "B" -> "b"
      [] c = "C" -> "c"
      [] c = "D" -> "d"
      [] c = "E" -> "e"
      [] c = "F" -> "f"
      [] c = "G" -> "g"
      [] c = "H" -> "h"
      [] c = "I" -> "i"
      [] c = "J" -> "j"
      [] c = "K" -> "k"
      [] c = "L" -> "l"
      [] c = "M" -> "m"
      [] c = "N" -> "n"
      [] c = "O" -> "o"
      [] c = "P" -> "p"
      [] c = "Q" -> "q"
      [] c = "R" -> "r"
      [] c = "S" -> "s"
      [] c = "T" -> "t"
      [] c = "U" -> "u"
      [] c = "V" -> "v"
      [] c = "W" -> "w"
      [] c = "X" -> "x"
      [] c = "Y" -> "y"
      [] c = "Z" -> "z"
      [] OTHER -> c

\* \s and the white space of String.prototype.trim
WhiteSpace == {" ", "\t", "\n", "\r"}
Digits == {"0", "1", "2", "3", "4", "5", "6", "7", "8", "9"}

\* a literal of a regular expression with the i flag matches s at position p
MatchLit(s, p, lit) ==
    /\ p >= 1
    /\ p + Len(lit) - 1 <= Len(s)
    /\ \A k \in 1..Len(lit) : Lower(Ch(s, p + k - 1)) = Lower(Ch(lit, k))

\* index of the last character of the longest run of characters outside X
\* that starts at p (p - 1 when the run is empty): a greedy [^X]*
RECURSIVE RunNotIn(_, _, _)
RunNotIn(s, p, X) ==
    IF p <= Len(s) /\ Ch(s, p) \notin X THEN RunNotIn(s, p + 1, X) ELSE p - 1

\* the same for a run of characters of X: a greedy [X]*
RECURSIVE RunIn(_, _, _)
RunIn(s, p, X) ==
    IF p <= Len(s) /\ Ch(s, p) \in X THEN RunIn(s, p + 1, X) ELSE p - 1

\* String.prototype.trim
trim(s) ==
    LET keep == {i \in 1..Len(s) : Ch(s, i) \notin WhiteSpace}
    IN  IF keep = {} THEN ""
        ELSE LET first == CHOOSE i \in keep : \A j \in keep : i <= j
                 last  == CHOOSE i \in keep : \A j \in keep : j <= i
             IN  Sub(s, first, last)

\* the characters encodeURIComponent leaves alone
Unreserved == "-_.!~*'()0123456789" \o UpperCase \o LowerCase

\* the UTF-8 escapes of the other ASCII characters the model's strings hold
Escapes ==
    { <<" ", "%20">>, <<"/", "%2F">>, <<":", "%3A">>, <<"?", "%3F">>,
      <<"#", "%23">>, <<"%", "%25">>, <<"<", "%3C">>, <<">", "%3E">>,
      <<"=", "%3D">>, <<"&", "%26">>, <<"\"", "%22">>, <<"\t", "%09">>,
      <<"\n", "%0A">>, <<"\r", "%0D">> }

RECURSIVE encodeURIComponent(_)
encodeURIComponent(s) ==
    IF s = "" THEN ""
    ELSE LET c == Ch(s, 1)
             e == IF \E k \in 1..Len(Unreserved) : Ch(Unreserved, k) = c
                  THEN c
                  ELSE (CHOOSE pr \in Escapes : pr[1] = c)[2]
         IN  e \o encodeURIComponent(Sub(s, 2, Len(s)))

----------------------------------------------------------------------------
(* The regular expressions of the source *)

NoMatch == [found |-> FALSE, group |-> ""]
Match(g) == [found |-> TRUE, group |-> g]

\* /<meta\s+property="og:image"\s+content="([^"]+)"/i tried at position p
OgImageAt(html, p) ==
    IF ~MatchLit(html, p, "<meta") THEN NoMatch
    ELSE LET a  == p + 5
             w1 == RunIn(html, a, WhiteSpace)
             b  == w1 + 1
             lit1 == "property=\"og:image\""
             c  == b + Len(lit1)
             w2 == RunIn(html, c, WhiteSpace)
             d  == w2 + 1
             lit2 == "content=\""
             g  == d + Len(lit2)
             ge == RunNotIn(html, g, {"\""})
         IN  IF /\ w1 >= a
                /\ MatchLit(html, b, lit1)
                /\ w2 >= c
                /\ MatchLit(html, d, lit2)
                /\ ge >= g
                /\ Ch(html, ge + 1) = "\""
             THEN Match(Sub(html, g, ge))
             ELSE NoMatch

\* html.match(/<meta\s+property="og:image"\s+content="([^"]+)"/i): leftmost match
OgImageMatch(html) ==
    LET ps == {p \in 1..Len(html) : OgImageAt(html, p).found}
    IN  IF ps = {} THEN NoMatch
        ELSE OgImageAt(html, CHOOSE p \in ps : \A q \in ps : p <= q)

\* src="([^"]+)" tried at position r: the index of the last character of the
\* group, or 0
SrcGroupEnd(html, r) ==
    LET g  == r + 5
        ge == RunNotIn(html, g, {"\""})
    IN  IF MatchLit(html, r, "src=\"") /\ ge >= g /\ Ch(html, ge + 1) = "\""
        THEN ge ELSE 0

\* class="[^"]*metaframe[^"]*" tried at position q: the position after the
\* closing quote, or 0
ClassEnd(html, q) ==
    LET v  == q + 7
        ve == RunNotIn(html, v, {"\""})
    IN  IF /\ MatchLit(html, q, "class=\"")
           /\ Ch(html, ve + 1) = "\""
           /\ \E m \in v..ve : m + 8 <= ve /\ MatchLit(html, m, "metaframe")
        THEN ve + 2 ELSE 0

\* [^>]*src="([^"]+)" tried at position e: the greedy [^>]* gives the last
\* position of src=" inside the run
SrcAfter(html, e) ==
    LET stop == RunNotIn(html, e, {">"})
        rs   == {r \in e..(stop + 1) : SrcGroupEnd(html, r) > 0}
    IN  IF rs = {} THEN NoMatch
        ELSE LET r == CHOOSE x \in rs : \A y \in rs : y <= x
             IN  Match(Sub(html, r + 5, SrcGroupEnd(html, r)))

\* /<iframe[^>]*class="[^"]*metaframe[^"]*"[^>]*src="([^"]+)"/i tried at p
IframeAt(html, p) ==
    IF ~MatchLit(html, p, "<iframe") THEN NoMatch
    ELSE LET a    == p + 7
             stop == RunNotIn(html, a, {">"})
             qs   == {q \in a..(stop + 1) :
                        /\ ClassEnd(html, q) > 0
                        /\ SrcAfter(html, ClassEnd(html, q)).found}
         IN  IF qs = {} THEN NoMatch
             ELSE LET q == CHOOSE x \in qs : \A y \in qs : y <= x
                  IN  SrcAfter(html, ClassEnd(html, q))

\* html.match(/<iframe[^>]*class="[^"]*metaframe[^"]*"[^>]*src="([^"]+)"/i)
IframeMatch(html) ==
    LET ps == {p \in 1..Len(html) : IframeAt(html, p).found}
    IN  IF ps = {} THEN NoMatch
        ELSE IframeAt(html, CHOOSE p \in ps : \A q \in ps : p <= q)

\* url.match(/\/movies\/([^/?#]+)(?:\/?|$)/i)
SlugMatch(url) ==
    LET lit == "/movies/"
        ps  == {p \in 1..Len(url) :
                  /\ MatchLit(url, p, lit)
                  /\ RunNotIn(url, p + Len(lit), {"/", "?", "#"}) >= p + Len(lit)}
    IN  IF ps = {} THEN NoMatch
        ELSE LET p == CHOOSE x \in ps : \A y \in ps : x <= y
             IN  Match(Sub(url, p + Len(lit),
                              RunNotIn(url, p + Len(lit), {"/", "?", "#"})))

\* slug.match(/(19|20)\d{2}/)
YearMatch(slug) ==
    LET ps == {p \in 1..Len(slug) :
                 /\ Sub(slug, p, p + 1) \in {"19", "20"}
                 /\ p + 3 <= Len(slug)
                 /\ Ch(slug, p + 2) \in Digits
                 /\ Ch(slug, p + 3) \in Digits}
    IN  IF ps = {} THEN NoMatch
        ELSE LET p == CHOOSE x \in ps : \A y \in ps : x <= y
             IN  Match(Sub(slug, p, p + 3))

\* s.replace(/<[^>]+>/g, by)
RECURSIVE ReplaceTags(_, _)
ReplaceTags(s, by) ==
    IF s = "" THEN ""
    ELSE LET e == RunNotIn(s, 2, {">"})
         IN  IF Ch(s, 1) = "<" /\ e >= 2 /\ Ch(s, e + 1) = ">"
             THEN by \o ReplaceTags(Sub(s, e + 2, Len(s)), by)
             ELSE Ch(s, 1) \o ReplaceTags(Sub(s, 2, Len(s)), by)

\* s.replace(/\s+/g, ' ')
RECURSIVE CollapseSpace(_)
CollapseSpace(s) ==
    IF s = "" THEN ""
    ELSE LET e == RunIn(s, 1, WhiteSpace)
         IN  IF e >= 1
             THEN " " \o CollapseSpace(Sub(s, e + 1, Len(s)))
             ELSE Ch(s, 1) \o CollapseSpace(Sub(s, 2, Len(s)))

----------------------------------------------------------------------------
(* JavaScript values *)

Str(s) == [t |-> "string", s |-> s]
Undefined == [t |-> "undefined", s |-> ""]
\* a number, written as its decimal text
Num(s) == [t |-> "number", s |-> s]
\* an object that refers to itself: it has no trim or match method and
\* JSON.stringify throws a TypeError on it
Cyclic == [t |-> "object", s |-> ""]

\* ToBoolean
Truthy(v) ==
    \/ v.t = "string" /\ v.s # ""
    \/ v.t = "number" /\ v.s \notin {"0", "NaN"}
    \/ v.t = "object"

\* a || b
Or(a, b) == IF Truthy(a) THEN a ELSE b

\* ToString, applied by the host to the argument of fetchv2
RequestKey(v) ==
    CASE v.t = "string" -> v.s
      [] v.t = "number" -> v.s
      [] v.t = "undefined" -> "undefined"
      [] OTHER -> "[object Object]"

----------------------------------------------------------------------------
(* JSON.stringify on the values the operations build: an array of flat     *)
(* objects, each a sequence of <<key, value>> pairs in insertion order     *)

\* the escapes of QuoteJSONString for the characters the model's strings hold
RECURSIVE JSONEscape(_)
JSONEscape(s) ==
    IF s = "" THEN ""
    ELSE LET c == Ch(s, 1)
             e == CASE c = "\"" -> "\\\""
                    [] c = "\\" -> "\\\\"
                    [] c = "\n" -> "\\n"
                    [] c = "\t" -> "\\t"
                    [] c = "\r" -> "\\r"
                    [] OTHER -> c
         IN  e \o JSONEscape(Sub(s, 2, Len(s)))

JSONQuote(s) == "\"" \o JSONEscape(s) \o "\""

\* SerializeJSONProperty of a primitive
JSONValue(v) == IF v.t = "string" THEN JSONQuote(v.s) ELSE v.s

\* a property whose value is undefined is left out of the object
RECURSIVE JSONMembers(_, _)
JSONMembers(obj, first) ==
    IF obj = <<>> THEN ""
    ELSE IF Head(obj)[2].t = "undefined" THEN JSONMembers(Tail(obj), first)
    ELSE (IF first THEN "" ELSE ",")
         \o JSONQuote(Head(obj)[1]) \o ":" \o JSONValue(Head(obj)[2])
         \o JSONMembers(Tail(obj), FALSE)

JSONObject(obj) == "{" \o JSONMembers(obj, TRUE) \o "}"

RECURSIVE JSONElements(_)
JSONElements(list) ==
    IF list = <<>> THEN ""
    ELSE JSONObject(Head(list))
         \o (IF Len(list) > 1 THEN "," ELSE "")
         \o JSONElements(Tail(list))

\* JSON.stringify(list), when it does not throw
JSONStringify(list) == "[" \o JSONElements(list) \o "]"

\* JSON.stringify(list) throws a TypeError: some value is a cyclic structure
StringifyThrows(list) ==
    \E k \in 1..Len(list) : \E m \in 1..Len(list[k]) : list[k][m][2].t = "object"

----------------------------------------------------------------------------
(* The data source behind fetchv2 *)

SearchEndpoint == "https://ogomovies.com.pk/wp-json/wp/v2/search?search="
MoviesEndpoint == "https://ogomovies.com.pk/wp-json/wp/v2/movies?slug="
\* the page size the search request asks for
PerPage == 10

IsPrefix(pre, s) == Len(pre) <= Len(s) /\ Sub(s, 1, Len(pre)) = pre

\* the movie pages the search endpoint links to
MoviePage1 == "https://ogomovies.com.pk/movies/ronth-2025/"
MoviePage2 == "https://ogomovies.com.pk/movies/ronth/"

\* one hit of the search endpoint: an object with a title and a url, or null
Hit(title, url) == [isObject |-> TRUE, title |-> title, url |-> url]
NullHit == [isObject |-> FALSE, title |-> Undefined, url |-> Undefined]

HitKinds ==
    { Hit(Str("Ronth"), Str(MoviePage1)),
      Hit(Str(" Ronth 2 "), Str(MoviePage2)),
      Hit(Str(" "), Str(MoviePage1)),
      Hit(Undefined, Str(MoviePage2)),
      Hit(Str("Ronth"), Undefined),
      Hit(Num("7"), Str(MoviePage1)),
      NullHit }

RECURSIVE SeqsUpTo(_, _)
SeqsUpTo(S, n) ==
    IF n = 0 THEN {<<>>}
    ELSE LET shorter == SeqsUpTo(S, n - 1)
         IN  shorter \cup {Append(q, e) : q \in shorter, e \in S}

\* one post of the movies endpoint: content.rendered and title.rendered, or null
Post(content, title) == [isObject |-> TRUE, content |-> content, title |-> title]
NullPost == [isObject |-> FALSE, content |-> Undefined, title |-> Undefined]

PostKinds ==
    { Post(Str("<p>A <b>hero</b>\n rises.</p>"), Str(" <i>Ronth</i> ")),
      Post(Str("<p> </p>"), Undefined),
      Post(Num("7"), Str("Ronth")),
      NullPost }

\* what fetchv2(url) and then json() or text() do: fetchv2 throws; or the
\* body reader throws; or text() gives `text` and json() gives the array
\* `items` (isArray) or a value that is no array and not iterable
Answer(fetchThrows, bodyThrows, text, isArray, items) ==
    [fetchThrows |-> fetchThrows, bodyThrows |-> bodyThrows, text |-> text,
     isArray |-> isArray, items |-> items]

FetchThrows == Answer(TRUE, FALSE, "", FALSE, <<>>)
BodyThrows == Answer(FALSE, TRUE, "", FALSE, <<>>)
NotAnArray == Answer(FALSE, FALSE, "", FALSE, <<>>)
ArrayOf(items) == Answer(FALSE, FALSE, "", TRUE, items)
Html(text) == Answer(FALSE, FALSE, text, FALSE, <<>>)

OgImage(content) == "<meta property=\"og:image\" content=\"" \o content \o "\" />"
Frame(attrs) == "<iframe" \o attrs \o " frameborder=\"0\"></iframe>"
MarkerClass == " class=\"metaframe rptss\""
Player1 == " src=\"https://player.example/e/1\""
Player2 == " src=\"https://player.example/e/2\""

Pages ==
    { "<html><head><title>Ronth</title></head><body></body></html>",
      "<head>" \o OgImage(" https://ogomovies.com.pk/p.jpg ") \o "</head>"
          \o Frame(MarkerClass \o Player1),
      "<head>" \o OgImage(" ") \o "</head>"
          \o Frame(" class=\"ad\" src=\"https://ads.example/\"")
          \o Frame(MarkerClass \o Player1) \o Frame(MarkerClass \o Player2),
      "<META  PROPERTY=\"og:image\"\n content=\"/p.jpg\">"
          \o Frame(Player1 \o MarkerClass) \o Frame(MarkerClass \o Player2),
      "<meta content=\"/p.jpg\" property=\"og:image\">"
          \o Frame(MarkerClass) \o Frame(MarkerClass \o Player2),
      Frame(" class=\"ad\" src=\"https://ads.example/\"")
          \o Frame(MarkerClass \o " src=\"\"") }

SearchAnswers ==
    {FetchThrows, BodyThrows, NotAnArray}
        \cup {ArrayOf(hits) : hits \in SeqsUpTo(HitKinds, MaxHits)}

MoviesAnswers ==
    {FetchThrows, BodyThrows, NotAnArray, ArrayOf(<<>>)}
        \cup {ArrayOf(<<p>>) : p \in PostKinds}

PageAnswers == {FetchThrows, BodyThrows} \cup {Html(h) : h \in Pages}

\* the answers the data source can give to a request for url
AnswersFor(url) ==
    IF IsPrefix(SearchEndpoint, url) THEN SearchAnswers
    ELSE IF IsPrefix(MoviesEndpoint, url) THEN MoviesAnswers
    ELSE PageAnswers

----------------------------------------------------------------------------
(* State *)

\* the calls of one behaviour
Calls == {1, 2}

Operations == {"searchResults", "extractDetails", "extractEpisodes", "extractStreamUrl"}

VARIABLES
    op,       \* op[c]: the operation call c runs
    arg,      \* arg[c]: its argument (keyword or url)
    pc,       \* pc[c]: where call c stands
    data,     \* data[c]: searchResults' data, the hits of the search endpoint
    i,        \* i[c]: index in data of the item the for loop is at
    results,  \* results[c]: searchResults' results array
    ret,      \* ret[c]: what the call settled with
    reqs,     \* reqs[c]: the urls call c passed to fetchv2, in order
    net       \* the answers the data source has given, one per url asked

vars == <<op, arg, pc, data, i, results, ret, reqs, net>>

Pending == [kind |-> "pending", s |-> ""]
\* the promise is fulfilled with the string s
Returned(s) == [kind |-> "string", s |-> s]
\* the promise is fulfilled with null
ReturnedNull == [kind |-> "null", s |-> ""]
\* the promise is rejected
Raised == [kind |-> "raised", s |-> ""]

\* the arguments the host passes
Keywords == {Str("ronth"), Str(" ronth 2 "), Undefined}
Urls == {Str(MoviePage1), Str(MoviePage2), Str("https://ogomovies.com.pk/genre/action/"),
         Str(" \"a\\b\" "), Undefined, Cyclic}

Arguments(o) == IF o = "searchResults" THEN Keywords ELSE Urls

\* the answer of the data source to a request for url: the one it gave
\* before, or else any answer it can give
Asked(url) == \E n \in net : n.url = url
Served(url) == (CHOOSE n \in net : n.url = url).ans
Offered(url) == IF Asked(url) THEN {Served(url)} ELSE AnswersFor(url)
Serve(url, ans) == net' = net \cup {[url |-> url, ans |-> ans]}

\* the url of the request call c is waiting for
Current(c) == reqs[c][Len(reqs[c])]

Settle(c, value) ==
    /\ ret' = [ret EXCEPT ![c] = value]
    /\ pc' = [pc EXCEPT ![c] = "done"]

----------------------------------------------------------------------------
(* The host calls an operation *)

Invoke(c) ==
    /\ pc[c] = "idle"
    /\ \E o \in Operations : \E a \in Arguments(o) :
          /\ op' = [op EXCEPT ![c] = o]
          /\ arg' = [arg EXCEPT ![c] = a]
    /\ pc' = [pc EXCEPT ![c] = "entered"]
    /\ UNCHANGED <<data, i, results, ret, reqs, net>>

----------------------------------------------------------------------------
(* searchResults *)

searchUrl(encoded) ==
    SearchEndpoint \o encoded \o "&subtype=movies&per_page=" \o ToString(PerPage)

\* a catch block that throws the error again
searchResultsRethrow == Raised

\* catch (error) { return JSON.stringify([]); }
searchResultsCatch == Returned(JSONStringify(<<>>))

\* an array kept at module level: a call starts from what the other call left
LeftoverResults(c) == results[3 - c]

\* const results = [];
NewResults(c) == <<>>

\* a fetch made a second time
RetriedPageRequests(href) == <<RequestKey(href), RequestKey(href)>>

\* the requests made for one hit whose url is truthy
PageRequests(href) == <<RequestKey(href)>>

\* results.unshift(entry)
Unshift(list, entry) == <<entry>> \o list

\* results.push(entry)
Push(list, entry) == Append(list, entry)

\* the image taken from the page of a hit
Poster(html) ==
    LET imgMatch == OgImageMatch(html)
    IN  IF imgMatch.found /\ imgMatch.group # "" THEN trim(imgMatch.group) ELSE ""

\* the title and href of the item the loop is at
ItemTitle(c) == Or(data[c][i[c]].title, Str(""))
ItemHref(c) == Or(data[c][i[c]].url, Str(""))

\* try { const encoded = ...; const response = await fetchv2(searchUrl);
searchResults_begin(c) ==
    /\ pc[c] = "entered" /\ op[c] = "searchResults"
    /\ IF arg[c].t # "string"
       THEN \* keyword.trim is not a function
            /\ Settle(c, searchResultsCatch)
            /\ UNCHANGED reqs
       ELSE /\ reqs' = [reqs EXCEPT ![c] =
                          Append(@, searchUrl(encodeURIComponent(trim(arg[c].s))))]
            /\ pc' = [pc EXCEPT ![c] = "sr_fetch"]
            /\ UNCHANGED ret
    /\ UNCHANGED <<op, arg, data, i, results, net>>

\* fetchv2(searchUrl) settles; const data = await response.json();
searchResults_fetched(c) ==
    /\ pc[c] = "sr_fetch"
    /\ \E ans \in Offered(Current(c)) :
          /\ Serve(Current(c), ans)
          /\ IF ans.fetchThrows
             THEN Settle(c, searchResultsCatch)
             ELSE pc' = [pc EXCEPT ![c] = "sr_json"] /\ UNCHANGED ret
    /\ UNCHANGED <<op, arg, data, i, results, reqs>>

\* response.json() settles; const results = []; for (const item of data)
searchResults_parsed(c) ==
    /\ pc[c] = "sr_json"
    /\ LET ans == Served(Current(c))
       IN  IF ans.bodyThrows \/ ~ans.isArray
           THEN \* json() throws, or data is not iterable
                /\ Settle(c, searchResultsCatch)
                /\ UNCHANGED <<data, i, results>>
           ELSE /\ data' = [data EXCEPT ![c] = ans.items]
                /\ results' = [results EXCEPT ![c] = NewResults(c)]
                /\ i' = [i EXCEPT ![c] = 1]
                /\ pc' = [pc EXCEPT ![c] = "sr_loop"]
                /\ UNCHANGED ret
    /\ UNCHANGED <<op, arg, reqs, net>>

\* if (title && href) { results.push({...}); }  and on to the next item
PushAndContinue(c, image) ==
    LET title == ItemTitle(c)
        href  == ItemHref(c)
    IN  IF Truthy(title) /\ Truthy(href)
        THEN IF title.t # "string" \/ href.t # "string"
             THEN \* title.trim or href.trim is not a function
                  /\ Settle(c, searchResultsCatch)
                  /\ UNCHANGED <<results, i>>
             ELSE /\ results' = [results EXCEPT ![c] =
                        Push(@, << <<"title", Str(trim(title.s))>>,
                                   <<"image", Str(image)>>,
                                   <<"href", Str(trim(href.s))>> >>)]
                  /\ i' = [i EXCEPT ![c] = @ + 1]
                  /\ pc' = [pc EXCEPT ![c] = "sr_loop"]
                  /\ UNCHANGED ret
        ELSE /\ i' = [i EXCEPT ![c] = @ + 1]
             /\ pc' = [pc EXCEPT ![c] = "sr_loop"]
             /\ UNCHANGED <<results, ret>>

\* one turn of the for loop up to its await, or the return after the loop
searchResults_item(c) ==
    /\ pc[c] = "sr_loop"
    /\ IF i[c] > Len(data[c])
       THEN /\ Settle(c, Returned(JSONStringify(results[c])))
            /\ UNCHANGED <<results, i, reqs>>
       ELSE IF ~data[c][i[c]].isObject
       THEN \* item.title of null
            /\ Settle(c, searchResultsCatch)
            /\ UNCHANGED <<results, i, reqs>>
       ELSE IF Truthy(ItemHref(c))
       THEN /\ reqs' = [reqs EXCEPT ![c] = @ \o PageRequests(ItemHref(c))]
            /\ pc' = [pc EXCEPT ![c] = "sr_page"]
            /\ UNCHANGED <<results, i, ret>>
       ELSE /\ PushAndContinue(c, "")
            /\ UNCHANGED reqs
    /\ UNCHANGED <<op, arg, data, net>>

\* fetchv2(href) settles; const html = await pageRes.text();
searchResults_page(c) ==
    /\ pc[c] = "sr_page"
    /\ \E ans \in Offered(Current(c)) :
          /\ Serve(Current(c), ans)
          /\ IF ans.fetchThrows
             THEN \* catch (innerErr) {}
                  PushAndContinue(c, "")
             ELSE /\ pc' = [pc EXCEPT ![c] = "sr_text"]
                  /\ UNCHANGED <<results, i, ret>>
    /\ UNCHANGED <<op, arg, data, reqs>>

\* pageRes.text() settles; the match, and the rest of the loop body
searchResults_text(c) ==
    /\ pc[c] = "sr_text"
    /\ LET ans == Served(Current(c))
       IN  IF ans.bodyThrows
           THEN PushAndContinue(c, "")
           ELSE PushAndContinue(c, Poster(ans.text))
    /\ UNCHANGED <<op, arg, data, reqs, net>>

----------------------------------------------------------------------------
(* extractDetails *)

moviesUrl(encoded) == MoviesEndpoint \o encoded

\* const slug = slugMatch ? slugMatch[1] : '';
SlugOf(url) == IF SlugMatch(url).found THEN SlugMatch(url).group ELSE ""

\* description || ''
DescriptionOrEmpty(description) == IF description # "" THEN description ELSE ""

\* description || 'No description available'
DescriptionOrDefault(description) ==
    IF description # "" THEN description ELSE "No description available"

\* aliases || ''
AliasesOrDefault(aliases) == IF aliases # "" THEN aliases ELSE ""

\* airdate || ''
AirdateOrDefault(airdate) == IF airdate # "" THEN airdate ELSE ""

\* const details = [{ description: ..., aliases: ..., airdate: ... }];
Details(description, aliases, airdate) ==
    << << <<"description", Str(DescriptionOrDefault(description))>>,
          <<"aliases", Str(AliasesOrDefault(aliases))>>,
          <<"airdate", Str(AirdateOrDefault(airdate))>> >> >>

\* catch (error) { return JSON.stringify([{ description: '', ... }]); }
extractDetailsCatch ==
    Returned(JSONStringify(<< << <<"description", Str("")>>,
                                 <<"aliases", Str("")>>,
                                 <<"airdate", Str("")>> >> >>))

\* raw.replace(/<[^>]+>/g, ' ').replace(/\s+/g, ' ').trim()
Stripped(raw) == trim(CollapseSpace(ReplaceTags(raw, " ")))

\* post.title.rendered.replace(/<[^>]+>/g, '').trim()
AliasOf(rendered) == trim(ReplaceTags(rendered, ""))

\* const yearMatch = slug.match(...); airdate = yearMatch ? yearMatch[0] : '';
YearOf(slug) == IF YearMatch(slug).found THEN YearMatch(slug).group ELSE ""

\* the body of if (Array.isArray(posts) && posts.length > 0) throws: post is
\* null, or a rendered value is truthy and has no replace method
PostThrows(post) ==
    \/ ~post.isObject
    \/ Truthy(post.content) /\ post.content.t # "string"
    \/ Truthy(post.title) /\ post.title.t # "string"

\* the details array built from the first post
DetailsOfPost(post, slug) ==
    Details(IF Truthy(post.content) THEN Stripped(post.content.s) ELSE "",
            IF Truthy(post.title) THEN AliasOf(post.title.s) ELSE "",
            YearOf(slug))

\* try { const slugMatch = url.match(...); ... const res = await fetchv2(apiUrl);
extractDetails_begin(c) ==
    /\ pc[c] = "entered" /\ op[c] = "extractDetails"
    /\ IF arg[c].t # "string"
       THEN \* url.match is not a function
            /\ Settle(c, extractDetailsCatch)
            /\ UNCHANGED reqs
       ELSE IF SlugOf(arg[c].s) = ""
       THEN /\ Settle(c, Returned(JSONStringify(Details("", "", ""))))
            /\ UNCHANGED reqs
       ELSE /\ reqs' = [reqs EXCEPT ![c] =
                          Append(@, moviesUrl(encodeURIComponent(SlugOf(arg[c].s))))]
            /\ pc' = [pc EXCEPT ![c] = "ed_fetch"]
            /\ UNCHANGED ret
    /\ UNCHANGED <<op, arg, data, i, results, net>>

\* fetchv2(apiUrl) settles; const posts = await res.json();
extractDetails_fetched(c) ==
    /\ pc[c] = "ed_fetch"
    /\ \E ans \in Offered(Current(c)) :
          /\ Serve(Current(c), ans)
          /\ IF ans.fetchThrows
             THEN Settle(c, extractDetailsCatch)
             ELSE pc' = [pc EXCEPT ![c] = "ed_json"] /\ UNCHANGED ret
    /\ UNCHANGED <<op, arg, data, i, results, reqs>>

\* res.json() settles; the fields, the record and the return
extractDetails_parsed(c) ==
    /\ pc[c] = "ed_json"
    /\ LET ans == Served(Current(c))
       IN  IF ans.bodyThrows
           THEN Settle(c, extractDetailsCatch)
           ELSE IF ans.isArray /\ Len(ans.items) > 0
           THEN IF PostThrows(ans.items[1])
                THEN Settle(c, extractDetailsCatch)
                ELSE Settle(c, Returned(JSONStringify(
                         DetailsOfPost(ans.items[1], SlugOf(arg[c].s)))))
           ELSE Settle(c, Returned(JSONStringify(Details("", "", ""))))
    /\ UNCHANGED <<op, arg, data, i, results, reqs, net>>

----------------------------------------------------------------------------
(* extractEpisodes *)

\* href: url.trim()
EpisodesTrimmed(url) ==
    << << <<"href", [url EXCEPT !.s = trim(@)]>>, <<"number", Str("1")>> >> >>

\* const episodes = [{ href: url, number: '1' }];
Episodes(url) == << << <<"href", url>>, <<"number", Str("1")>> >> >>

\* catch (error) { return JSON.stringify([]); }
extractEpisodesCatch == Returned(JSONStringify(<<>>))

\* the whole body: it awaits nothing
extractEpisodes_run(c) ==
    /\ pc[c] = "entered" /\ op[c] = "extractEpisodes"
    /\ IF StringifyThrows(Episodes(arg[c]))
       THEN Settle(c, extractEpisodesCatch)
       ELSE Settle(c, Returned(JSONStringify(Episodes(arg[c]))))
    /\ UNCHANGED <<op, arg, data, i, results, reqs, net>>

----------------------------------------------------------------------------
(* extractStreamUrl *)

\* catch (error) { return null; }
extractStreamUrlCatch == ReturnedNull

\* with a second match, /<iframe[^>]*src="([^"]+)"/i, tried when the first fails
StreamOfAnyFrame(html) ==
    LET ps == {p \in 1..Len(html) :
                 MatchLit(html, p, "<iframe") /\ SrcAfter(html, p + 7).found}
    IN  IF IframeMatch(html).found THEN Returned(IframeMatch(html).group)
        ELSE IF ps = {} THEN ReturnedNull
        ELSE Returned(SrcAfter(html, 7 + CHOOSE p \in ps : \A q \in ps : p <= q).group)

\* if (iframeMatch && iframeMatch[1]) { return iframeMatch[1]; } return null;
StreamOf(html) ==
    LET iframeMatch == IframeMatch(html)
    IN  IF iframeMatch.found /\ iframeMatch.group # ""
        THEN Returned(iframeMatch.group)
        ELSE ReturnedNull

\* try { const res = await fetchv2(url);
extractStreamUrl_begin(c) ==
    /\ pc[c] = "entered" /\ op[c] = "extractStreamUrl"
    /\ reqs' = [reqs EXCEPT ![c] = Append(@, RequestKey(arg[c]))]
    /\ pc' = [pc EXCEPT ![c] = "es_fetch"]
    /\ UNCHANGED <<op, arg, data, i, results, ret, net>>

\* fetchv2(url) settles; const html = await res.text();
extractStreamUrl_fetched(c) ==
    /\ pc[c] = "es_fetch"
    /\ \E ans \in Offered(Current(c)) :
          /\ Serve(Current(c), ans)
          /\ IF ans.fetchThrows
             THEN Settle(c, extractStreamUrlCatch)
             ELSE pc' = [pc EXCEPT ![c] = "es_text"] /\ UNCHANGED ret
    /\ UNCHANGED <<op, arg, data, i, results, reqs>>

\* res.text() settles; the match and the return
extractStreamUrl_text(c) ==
    /\ pc[c] = "es_text"
    /\ LET ans == Served(Current(c))
       IN  IF ans.bodyThrows
           THEN Settle(c, extractStreamUrlCatch)
           ELSE Settle(c, StreamOf(ans.text))
    /\ UNCHANGED <<op, arg, data, i, results, reqs, net>>

----------------------------------------------------------------------------
(* Specifications *)

Idle ==
    /\ op = [c \in Calls |-> "none"]
    /\ arg = [c \in Calls |-> Undefined]
    /\ pc = [c \in Calls |-> "idle"]
    /\ data = [c \in Calls |-> <<>>]
    /\ i = [c \in Calls |-> 0]
    /\ results = [c \in Calls |-> <<>>]
    /\ ret = [c \in Calls |-> Pending]
    /\ reqs = [c \in Calls |-> <<>>]

\* one call against a data source that may answer anything
Init == Idle /\ net = {}

Step(c) ==
    \/ Invoke(c)
    \/ searchResults_begin(c)
    \/ searchResults_fetched(c)
    \/ searchResults_parsed(c)
    \/ searchResults_item(c)
    \/ searchResults_page(c)
    \/ searchResults_text(c)
    \/ extractDetails_begin(c)
    \/ extractDetails_fetched(c)
    \/ extractDetails_parsed(c)
    \/ extractEpisodes_run(c)
    \/ extractStreamUrl_begin(c)
    \/ extractStreamUrl_fetched(c)
    \/ extractStreamUrl_text(c)

Next == Step(1)

Spec == Init /\ [][Next]_vars

\* the urls the operations can ask for, given the arguments of the host
SiteUrls ==
    {searchUrl(encodeURIComponent(trim(k.s))) : k \in {k \in Keywords : k.t = "string"}}
        \cup {RequestKey(u) : u \in Urls}
        \cup {moviesUrl(encodeURIComponent(SlugOf(u.s))) :
                 u \in {u \in Urls : u.t = "string" /\ SlugOf(u.s) # ""}}

\* two data sources, each with one fixed answer per url
Site1(url) ==
    IF IsPrefix(SearchEndpoint, url)
    THEN ArrayOf(<<Hit(Str("Ronth"), Str(MoviePage1)),
                   Hit(Str(" Ronth 2 "), Str(MoviePage2))>>)
    ELSE IF IsPrefix(MoviesEndpoint, url)
    THEN ArrayOf(<<Post(Str("<p>A <b>hero</b>\n rises.</p>"), Str(" <i>Ronth</i> "))>>)
    ELSE IF url = MoviePage1
    THEN Html("<head>" \o OgImage(" https://ogomovies.com.pk/p.jpg ") \o "</head>"
              \o Frame(MarkerClass \o Player1))
    ELSE IF url = MoviePage2 THEN BodyThrows
    ELSE Html("<html><head><title>Ronth</title></head><body></body></html>")

Site2(url) ==
    IF IsPrefix(SearchEndpoint, url)
    THEN ArrayOf(<<Hit(Str(" "), Str(MoviePage1)), Hit(Undefined, Str(MoviePage2))>>)
    ELSE IF IsPrefix(MoviesEndpoint, url) THEN NotAnArray
    ELSE IF url = MoviePage1 THEN FetchThrows
    ELSE Html("<META  PROPERTY=\"og:image\"\n content=\"/p.jpg\">"
              \o Frame(Player1 \o MarkerClass) \o Frame(MarkerClass \o Player2))

Sites ==
    { {[url |-> u, ans |-> Site1(u)] : u \in SiteUrls},
      {[url |-> u, ans |-> Site2(u)] : u \in SiteUrls} }

\* two calls, in any interleaving, against one unchanged data source
InitPair == Idle /\ net \in Sites

NextPair == \E c \in Calls : Step(c)

SpecPair == InitPair /\ [][NextPair]_vars

----------------------------------------------------------------------------
(* What the host reads: JSON.parse of a returned text, and the frame       *)
(* elements of a page                                                      *)

\* the position of the quote that closes the string literal opened before p
RECURSIVE StringEnd(_, _)
StringEnd(text, p) ==
    IF p > Len(text) \/ Ch(text, p) = "\"" THEN p
    ELSE IF Ch(text, p) = "\\" THEN StringEnd(text, p + 2)
    ELSE StringEnd(text, p + 1)

RECURSIVE JSONUnescape(_)
JSONUnescape(s) ==
    IF s = "" THEN ""
    ELSE IF Ch(s, 1) = "\\"
    THEN LET c == Ch(s, 2)
             d == CASE c = "n" -> "\n" [] c = "t" -> "\t" [] c = "r" -> "\r"
                    [] OTHER -> c
         IN  d \o JSONUnescape(Sub(s, 3, Len(s)))
    ELSE Ch(s, 1) \o JSONUnescape(Sub(s, 2, Len(s)))

\* the members of an object, read from position p (after "{" or ",")
RECURSIVE ParseMembers(_, _, _)
ParseMembers(text, p, acc) ==
    IF Ch(text, p) = "}" THEN [value |-> acc, next |-> p + 1]
    ELSE IF Ch(text, p) = "," THEN ParseMembers(text, p + 1, acc)
    ELSE LET ke  == StringEnd(text, p + 1)
             key == JSONUnescape(Sub(text, p + 1, ke - 1))
             v   == ke + 2
         IN  IF Ch(text, v) = "\""
             THEN LET ve == StringEnd(text, v + 1)
                  IN  ParseMembers(text, ve + 1,
                        Append(acc, <<key, Str(JSONUnescape(Sub(text, v + 1, ve - 1)))>>))
             ELSE LET ve == RunNotIn(text, v, {",", "}"})
                  IN  ParseMembers(text, ve + 1,
                        Append(acc, <<key, Num(Sub(text, v, ve))>>))

\* the elements of an array of objects, read from position p
RECURSIVE ParseElements(_, _, _)
ParseElements(text, p, acc) ==
    IF p > Len(text) \/ Ch(text, p) = "]" THEN acc
    ELSE IF Ch(text, p) = "," THEN ParseElements(text, p + 1, acc)
    ELSE LET m == ParseMembers(text, p + 1, <<>>)
         IN  ParseElements(text, m.next, Append(acc, m.value))

\* text is the JSON text of an array of objects
IsArrayText(text) ==
    /\ Len(text) >= 2
    /\ Ch(text, 1) = "["
    /\ Ch(text, Len(text)) = "]"
    /\ Len(text) > 2 => Ch(text, 2) = "{" /\ Ch(text, Len(text) - 1) = "}"

\* JSON.parse(text), for the text of an array of objects
JSONParse(text) == ParseElements(text, 2, <<>>)

\* the keys of an object, in order
Keys(obj) == [m \in 1..Len(obj) |-> obj[m][1]]

\* obj[key]
Get(obj, key) ==
    IF \E m \in 1..Len(obj) : obj[m][1] = key
    THEN obj[CHOOSE m \in 1..Len(obj) : obj[m][1] = key][2]
    ELSE Undefined

\* the start tags of the iframe elements of a page, in document order
RECURSIVE FramesAt(_, _)
FramesAt(html, starts) ==
    IF starts = {} THEN <<>>
    ELSE LET p == CHOOSE a \in starts : \A b \in starts : a <= b
         IN  <<Sub(html, p, RunNotIn(html, p, {">"}) + 1)>>
                 \o FramesAt(html, starts \ {p})

Frames(html) == FramesAt(html, {p \in 1..Len(html) : MatchLit(html, p, "<iframe")})

\* the attribute `name` of a start tag
Attr(tag, name) ==
    LET lit == name \o "=\""
        qs  == {q \in 2..Len(tag) : Ch(tag, q - 1) \in WhiteSpace /\ MatchLit(tag, q, lit)}
    IN  IF qs = {} THEN [present |-> FALSE, value |-> ""]
        ELSE LET q == CHOOSE a \in qs : \A b \in qs : a <= b
             IN  [present |-> TRUE,
                  value |-> Sub(tag, q + Len(lit), RunNotIn(tag, q + Len(lit), {"\""}))]

\* the class attribute of the tag holds the token metaframe
HasMarker(tag) ==
    LET class == " " \o Attr(tag, "class").value \o " "
    IN  \E m \in 1..Len(class) : MatchLit(class, m, " metaframe ")

\* the marker-class frames of a page, in document order
MarkerFrames(html) == SelectSeq(Frames(html), HasMarker)

----------------------------------------------------------------------------
(* Properties *)

Done(c) == pc[c] = "done"
Ran(c, o) == Done(c) /\ op[c] = o

\* the array the host parses out of the text call c returned
Out(c) == IF ret[c].kind = "string" THEN JSONParse(ret[c].s) ELSE <<>>

\* the answer to the first request of call c
FirstAnswer(c) == Served(reqs[c][1])
FirstThrew(c) == FirstAnswer(c).fetchThrows \/ FirstAnswer(c).bodyThrows

\* the hits the search endpoint answered call c with
HitsOf(c) ==
    IF reqs[c] # <<>> /\ ~FirstThrew(c) /\ FirstAnswer(c).isArray
    THEN FirstAnswer(c).items ELSE <<>>

\* a hit with a title and a url that are strings and not blank
WellFormed(hit) ==
    /\ hit.isObject
    /\ hit.title.t = "string" /\ trim(hit.title.s) # ""
    /\ hit.url.t = "string" /\ trim(hit.url.s) # ""

\* searchResults settles with the empty array when it fails
SearchDegrades(c) ==
    /\ ret[c].kind = "string" /\ IsArrayText(ret[c].s)
    /\ \A j \in 1..Len(Out(c)) : Keys(Out(c)[j]) = <<"title", "image", "href">>
    /\ (arg[c].t # "string" \/ FirstThrew(c) \/ ~FirstAnswer(c).isArray)
          => ret[c].s = "[]"

\* extractDetails settles with an array of one record
DetailsDegrades(c) ==
    /\ ret[c].kind = "string" /\ IsArrayText(ret[c].s)
    /\ Len(Out(c)) = 1
    /\ Keys(Out(c)[1]) = <<"description", "aliases", "airdate">>
    /\ \A m \in 1..3 : Out(c)[1][m][2].t = "string"

\* extractEpisodes settles with an array
EpisodesDegrades(c) ==
    /\ ret[c].kind = "string" /\ IsArrayText(ret[c].s)
    /\ arg[c].t = "object" => ret[c].s = "[]"

\* extractStreamUrl settles with null when it fails
StreamDegrades(c) ==
    /\ ret[c].kind \in {"string", "null"}
    /\ FirstThrew(c) => ret[c] = ReturnedNull

\* C1: whatever the argument (a string or not) and whatever fetchv2, json()
\* and text() do, a call never settles by raising, and what it settles with
\* has the operation's shape: searchResults an array text, "[]" on failure;
\* extractDetails the text of an array of one record; extractEpisodes an
\* array text; extractStreamUrl a string or null, null on failure.
C1_AlwaysDegrades ==
    \A c \in Calls :
        /\ ret[c].kind # "raised"
        /\ Done(c) => ret[c].kind # "pending"
        /\ Ran(c, "searchResults") => SearchDegrades(c)
        /\ Ran(c, "extractDetails") => DetailsDegrades(c)
        /\ Ran(c, "extractEpisodes") => EpisodesDegrades(c)
        /\ Ran(c, "extractStreamUrl") => StreamDegrades(c)

\* a searchResults call whose json() threw has settled
C1_Witness ==
    \E c \in Calls :
        /\ Ran(c, "searchResults") /\ reqs[c] # <<>>
        /\ FirstAnswer(c).bodyThrows
        /\ ret[c] = Returned("[]")

\* C2: the array searchResults returns has at most 10 elements and each has a
\* title and an href that are not empty, as emitted.
C2_SearchOutputBounded ==
    \A c \in Calls :
        Ran(c, "searchResults") =>
            /\ Len(Out(c)) <= PerPage
            /\ \A j \in 1..Len(Out(c)) :
                  /\ Get(Out(c)[j], "title").s # ""
                  /\ Get(Out(c)[j], "href").s # ""

\* C3: every well-formed hit of the answer of the search endpoint is emitted
\* with its own title and href, whatever the other hits of the answer are.
C3_BadItemNeverAbortsBatch ==
    \A c \in Calls :
        Ran(c, "searchResults") =>
            \A k \in 1..Len(HitsOf(c)) :
                WellFormed(HitsOf(c)[k]) =>
                    \E j \in 1..Len(Out(c)) :
                        /\ Get(Out(c)[j], "title").s = trim(HitsOf(c)[k].title.s)
                        /\ Get(Out(c)[j], "href").s = trim(HitsOf(c)[k].url.s)

\* the entries of out are entries of hits, in the order of hits
IsOrderedSelection(out, hits) ==
    \E f \in [1..Len(out) -> 1..Len(hits)] :
        /\ \A j \in 1..Len(out) : \A k \in 1..Len(out) : j < k => f[j] < f[k]
        /\ \A j \in 1..Len(out) :
              /\ hits[f[j]].isObject
              /\ hits[f[j]].title.t = "string" /\ hits[f[j]].url.t = "string"
              /\ Get(out[j], "title").s = trim(hits[f[j]].title.s)
              /\ Get(out[j], "href").s = trim(hits[f[j]].url.s)

\* C4: the array searchResults returns is a selection of the hits of the
\* search endpoint in the endpoint's order, whichever page fetches fail.
C4_OrderPreserved ==
    \A c \in Calls :
        Ran(c, "searchResults") => IsOrderedSelection(Out(c), HitsOf(c))

\* two hits with different titles were emitted, the page fetch of one failed
C4_Witness ==
    \E c \in Calls :
        /\ Ran(c, "searchResults")
        /\ Len(Out(c)) = 2
        /\ Get(Out(c)[1], "title") # Get(Out(c)[2], "title")
        /\ \E n \in net : n.url = Get(Out(c)[1], "href").s /\ n.ans.fetchThrows

\* C5: for every url string, extractEpisodes returns the text of an array of
\* exactly one episode whose number is "1" and whose href is the url as
\* given, and it passes nothing to fetchv2.
C5_OneEpisode ==
    \A c \in Calls :
        /\ op[c] = "extractEpisodes" => reqs[c] = <<>>
        /\ Ran(c, "extractEpisodes") /\ arg[c].t = "string" =>
              /\ IsArrayText(ret[c].s)
              /\ Out(c) = << << <<"href", Str(arg[c].s)>>, <<"number", Str("1")>> >> >>

\* extractEpisodes has run on a url with blanks, quotes and a backslash
C5_Witness ==
    \E c \in Calls :
        /\ Ran(c, "extractEpisodes")
        /\ arg[c] = Str(" \"a\\b\" ")

\* C6: on a page with several marker-class frames extractStreamUrl returns
\* the src of the first of them, and null if the first has none or an empty
\* one: never the src of a later frame.
C6_FirstMarkerFrameWins ==
    \A c \in Calls :
        (/\ Ran(c, "extractStreamUrl")
         /\ ~FirstThrew(c)
         /\ Len(MarkerFrames(FirstAnswer(c).text)) >= 2) =>
            LET src == Attr(MarkerFrames(FirstAnswer(c).text)[1], "src")
            IN  IF src.present /\ src.value # ""
                THEN ret[c] = Returned(src.value)
                ELSE ret[c] = ReturnedNull

\* the record extractDetails returned
Record(c) == Out(c)[1]

\* extractDetails of call c went through its catch block
DetailsThrew(c) ==
    \/ arg[c].t # "string"
    \/ /\ reqs[c] # <<>>
       /\ \/ FirstThrew(c)
          \/ /\ FirstAnswer(c).isArray /\ FirstAnswer(c).items # <<>>
             /\ PostThrows(FirstAnswer(c).items[1])

\* no slug in the url, or no post for the slug
NothingToDerive(c) ==
    \/ reqs[c] = <<>>
    \/ ~FirstAnswer(c).isArray
    \/ FirstAnswer(c).items = <<>>

C8_StreamAbsentOrMarkerSource ==
    \A c \in Calls :
        Ran(c, "extractStreamUrl") =>
            /\ ret[c].kind \in {"string", "null"}
            /\ FirstThrew(c) => ret[c] = ReturnedNull
            /\ (~FirstThrew(c) /\ MarkerFrames(FirstAnswer(c).text) = <<>>)
                  => ret[c] = ReturnedNull
            /\ ret[c].kind = "string" =>
                  /\ ~FirstThrew(c)
                  /\ \E k \in 1..Len(MarkerFrames(FirstAnswer(c).text)) :
                        LET src == Attr(MarkerFrames(FirstAnswer(c).text)[k], "src")
                        IN  src.present /\ src.value # ""

\* null was returned for a page that has frames, none of the marker class
\* with a src
C8_Witness ==
    \E c \in Calls :
        /\ Ran(c, "extractStreamUrl")
        /\ ~FirstThrew(c)
        /\ Frames(FirstAnswer(c).text) # <<>>
        /\ ret[c] = ReturnedNull

\* C9: two calls of one operation with one argument, against a data source
\* that answers each url the same way, return the same thing in every
\* interleaving with each other; and a call that has not started yet finds
\* its variables as they were at the start, whatever the other call has done.
C9_Idempotent ==
    /\ (Done(1) /\ Done(2) /\ op[1] = op[2] /\ arg[1] = arg[2]) => ret[1] = ret[2]
    /\ \A c \in Calls :
          pc[c] = "idle" =>
              /\ data[c] = <<>> /\ results[c] = <<>> /\ i[c] = 0
              /\ reqs[c] = <<>> /\ ret[c] = Pending

\* two searchResults calls with one keyword have both returned two entries
C9_Witness ==
    /\ Ran(1, "searchResults") /\ Ran(2, "searchResults")
    /\ arg[1] = arg[2]
    /\ Len(Out(1)) = 2

\* the requests one hit per truthy url gives, in order
RECURSIVE PageUrls(_)
PageUrls(hits) ==
    IF hits = <<>> THEN <<>>
    ELSE (IF Head(hits).isObject /\ Truthy(Head(hits).url)
          THEN <<RequestKey(Head(hits).url)>> ELSE <<>>)
         \o PageUrls(Tail(hits))

IsPrefixSeq(a, b) == Len(a) <= Len(b) /\ a = SubSeq(b, 1, Len(a))

\* C10: no fetch is made twice.  A searchResults call on a keyword string
\* makes one request to the search endpoint, and then for each hit with a
\* truthy url, in order, at most one request for its page; extractDetails
\* makes at most one request and none when the url has no slug;
\* extractStreamUrl makes exactly one request; extractEpisodes makes none.
C10_NoRetry ==
    \A c \in Calls :
        /\ (op[c] = "searchResults" /\ arg[c].t = "string"
              /\ pc[c] \notin {"idle", "entered"}) =>
              /\ reqs[c] # <<>>
              /\ reqs[c][1] = searchUrl(encodeURIComponent(trim(arg[c].s)))
              /\ IsPrefixSeq(Tail(reqs[c]), PageUrls(data[c]))
              /\ (Done(c) /\ ret[c].s # "[]") => Tail(reqs[c]) = PageUrls(data[c])
        /\ (op[c] = "searchResults" /\ arg[c].t # "string") => reqs[c] = <<>>
        /\ op[c] = "extractDetails" =>
              /\ Len(reqs[c]) <= 1
              /\ (arg[c].t # "string" \/ SlugOf(arg[c].s) = "") => reqs[c] = <<>>
              /\ (Done(c) /\ arg[c].t = "string" /\ SlugOf(arg[c].s) # "") =>
                    reqs[c] = <<moviesUrl(encodeURIComponent(SlugOf(arg[c].s)))>>
        /\ (op[c] = "extractStreamUrl" /\ pc[c] # "entered") =>
              reqs[c] = <<RequestKey(arg[c])>>
        /\ op[c] = "extractEpisodes" => reqs[c] = <<>>

\* a searchResults call is done whose two hits each had their page asked
\* for once, one of the two fetches having failed
C10_Witness ==
    \E c \in Calls :
        /\ Ran(c, "searchResults")
        /\ Len(reqs[c]) = 3
        /\ \E k \in 2..3 : Served(reqs[c][k]).fetchThrows

====
